---- MODULE Spec2Model ----
(***************************************************************************)
(* The playback scheduler of Dreams and Poems (VideoManager, app.js        *)
(* 3661-4250) together with the commands the application layer sends it    *)
(* (DreamsAndPoemsApp, app.js 688-725, 803-815).                           *)
(*                                                                         *)
(* JavaScript runs one task at a time: a handler, and the promise          *)
(* continuations it makes runnable, run to completion before the next      *)
(* event or timer is delivered.  Each action below is one such task.  An   *)
(* asynchronous function is cut at the awaits that wait for an event or a  *)
(* timer (the load of a video, the crossfade timer, the retry timer).      *)
(***************************************************************************)
EXTENDS Integers, Sequences, FiniteSets, TLC

VARIABLES
  videoUrls,            \* this.videoUrls: the shuffled playlist
  currentIndex,         \* this.currentIndex: the cursor
  activeVideoElement,   \* this.activeVideoElement: "null", "A" or "B"
  inactiveVideoElement, \* this.inactiveVideoElement
  isTransitioning,      \* this.isTransitioning
  preloadedVideos,      \* keys of this.preloadedVideos
  loadingPromises,      \* keys of this.loadingPromises
  errorCount,           \* this.errorCount
  preloadBufferSize,    \* this.config.preloadBufferSize
  src,                  \* src[s]: the src attribute of slot s
  listeners,            \* slots that carry this.videoEventHandler
  calls,                \* the playVideo executions that are past the busy guard
  preloads,             \* preloads[u]: preloadVideo(u) executions awaiting their load
  retryTimers,          \* pending retry timers of handleVideoError
  activeErrored,        \* the resource of the active slot has reported its error
  unhandledRejection,   \* history: some promise was rejected with no handler
  playNextCalls,        \* history: playNext() calls made by the scheduler itself
  retriesScheduled,     \* history: retry timers armed so far
  lastSettled,          \* history: how the last accepted playVideo settled
  lastPlayed,           \* history: cursor of the last successful playVideo
  parity,               \* history: number of successful playVideo calls, modulo 2
  evicted,              \* history: the last updatePreloadQueue evicted an entry
  eventListeners,       \* this.eventListeners: the subscribers of each event, in order
  invoked,              \* history: the subscribers the last emit() called, in order
  emitThrew,            \* history: the last emit() let an exception escape
  destroyed,            \* history: destroy() has run
  orphans,              \* orphans[u]: preloadVideo(u) executions awaiting their load
                        \* that were started before the last destroy()
  thrown,               \* history: the error the last initialize() raised, or "none"
  position,             \* where the video of the active slot is: "none", "early",
                        \* "final" (its last 3.2 seconds) or "ended"
  appTimers,            \* pending timers of DreamsAndPoemsApp.handleVideoError
  paused,               \* paused[s]: the paused attribute of slot s
  isPlaying,            \* DreamsAndPoemsApp: this.state.isPlaying
  isPaused,             \* this.state.isPaused
  pausedByPageHide,     \* this.state.pausedByPageHide (undefined counts as false)
  hidden,               \* document.hidden
  resumes,              \* slots with a play() promise of resumeVideo that has not settled
  uiVisible,            \* UIController: this.state.uiVisible
  uiHide,               \* this.timeouts.get('uiHide'): a timer id, 0 without the key
  hideTimers,           \* the ids of the pending timers that call hideUI
  inThrottle,           \* inThrottle of the throttled uiVisibilityHandler
  interacted,           \* history: uiVisibilityHandler has run for an interaction
                        \* since a hide timer was last armed
  hasError,             \* ErrorBoundary: this.state.hasError
  recoveryAttempts,     \* this.state.recoveryAttempts
  recoveries,           \* recoveries[st]: attemptRecovery executions waiting at st
  resolvedTrue,         \* history: attemptRecovery promises fulfilled with true, modulo 2
  maxAttempts,          \* ErrorUtils.retry: its argument maxAttempts
  func,                 \* func[k]: what the k-th call of its argument func does
  attempt,              \* its loop variable
  lastError,            \* its variable lastError
  retryPc,              \* where it is: "idle", "loop", "delay", "resolved", "rejected"
  settledWith,          \* the value or the error its promise is settled with
  funcCalls,            \* history: calls of func it has made
  swCache               \* service worker: the requests in the dynamic cache, oldest first

schedulerVars == <<videoUrls, currentIndex, activeVideoElement, inactiveVideoElement,
          isTransitioning, preloadedVideos, loadingPromises, errorCount,
          preloadBufferSize, src, listeners, calls, preloads, retryTimers,
          activeErrored, unhandledRejection,
          playNextCalls, retriesScheduled, lastSettled, lastPlayed, parity, evicted,
          eventListeners, invoked, emitThrew, destroyed, orphans, thrown,
          position, appTimers>>

\* the state of DreamsAndPoemsApp around pause and resume
pageVars == <<isPlaying, isPaused, pausedByPageHide, hidden, resumes>>

\* the state outside the scheduler and its media elements
uiVars == <<uiVisible, uiHide, hideTimers, inThrottle, interacted>>

\* the components beside the application's playback state
boundaryVars == <<hasError, recoveryAttempts, recoveries, resolvedTrue>>

retryVars == <<maxAttempts, func, attempt, lastError, retryPc, settledWith, funcCalls>>

swVars == <<swCache>>

restVars == <<uiVars, boundaryVars, retryVars, swVars>>

componentVars == <<pageVars, restVars>>

vars == <<schedulerVars, paused, componentVars>>

(***************************************************************************)
(* Bounds of the model and constants of the program.                       *)
(***************************************************************************)
\* playVideo(index) is called on the scheduler with indexes from -MaxOver to
\* length - 1 + MaxOver
MaxOver == 1
\* with commands of the UI layer, at most MaxErrorCount failures are delivered
MaxErrorCount == 1
\* with the scheduler left to itself, at most MaxAutoErrors failures are delivered
MaxAutoErrors == 12
\* on() is called while an event has fewer than MaxListeners subscribers
MaxListeners == 2

\* canplay is delivered to the scheduler while fewer than MaxInFlight preloads
\* of the url of the active slot are in flight
MaxInFlight == 2
\* the timer ids setTimeout hands to showUI are taken from 1..MaxTimerId
MaxTimerId == 2
\* errors reach the boundary from outside while fewer than MaxPending of its
\* recoveries are pending
MaxPending == 3
maxRecoveryAttempts == 3
\* retry() is called with maxAttempts from 0 to MaxAttempts
MaxAttempts == 3
\* the service worker is asked for the video files 1..MaxVideos
MaxVideos == 6
MAX_VIDEO_CACHE_SIZE == 5
maxErrors == 10
PRELOAD_BUFFER_SIZE_DESKTOP == 3
PRELOAD_BUFFER_SIZE_MOBILE == 1

Slots == {"A", "B"}
\* videoUrls[i] for an i outside the array, as a URL
Undefined == "undefined"
\* the well-formed urls of the model
Urls == {"u1", "u2", "u3"}
\* the arguments initialize() is given
InputLists == {<<"u1", "u2", "u3">>, <<"u1">>, <<>>, <<"", "not a url">>,
               <<"u1", "not a url">>}
\* the events of the model
Events == {"videoError", "videoEnded", "timeUpdate"}
\* the subscribers: the application's, two that return, one that throws
Callbacks == {"app", "f", "g", "t"}
UrlKeys == Urls \cup {Undefined}

(***************************************************************************)
(* Pure functions.                                                         *)
(***************************************************************************)
\* JavaScript's a % n for n > 0: the remainder has the sign of a
JsRem(a, n) == IF a >= 0 THEN a % n ELSE -((-a) % n)

\* typeof url === 'string' && url.trim() && new URL(url) does not throw
ValidUrl(u) == u \in Urls

RECURSIVE Filter(_)
Filter(s) ==
  IF s = <<>> THEN <<>>
  ELSE IF ValidUrl(Head(s)) THEN <<Head(s)>> \o Filter(Tail(s))
       ELSE Filter(Tail(s))

\* [s[i], s[j]] = [s[j], s[i]] with 0-based i, j
Swap(s, i, j) == [s EXCEPT ![i + 1] = s[j + 1], ![j + 1] = s[i + 1]]

\* ArrayUtils.shuffle: for (i = length - 1; i > 0; i--) swap i with rnd[i] in 0..i
RECURSIVE shuffle(_, _, _)
shuffle(s, i, rnd) ==
  IF i <= 0 THEN s ELSE shuffle(Swap(s, i, rnd[i]), i - 1, rnd)

\* the values Math.floor(Math.random() * (i + 1)) can take, for each i
RandomChoices(n) == {rnd \in [1..(n - 1) -> 0..(n - 1)] : \A i \in 1..(n - 1) : rnd[i] <= i}

Length == Len(videoUrls)

\* this.videoUrls[i]
UrlAt(i) == IF i \in 0..(Length - 1) THEN videoUrls[i + 1] ELSE Undefined

\* this.videoUrls.indexOf(url)
IndexOf(u) ==
  IF \E i \in 1..Length : videoUrls[i] = u
  THEN (CHOOSE i \in 1..Length : videoUrls[i] = u /\ \A j \in 1..(i - 1) : videoUrls[j] # u) - 1
  ELSE -1

\* the guard of playVideo
BusyNoFlag == Length = 0
Busy == isTransitioning \/ Length = 0

\* index % this.videoUrls.length in playVideo
Normalize(index) == JsRem(index, Length)

NextIndex == JsRem(currentIndex + 1, Length)
PrevIndexNoWrap == JsRem(currentIndex - 1, Length)
PrevIndex == JsRem(currentIndex - 1 + Length, Length)
RandomIndexes == 0..(Length - 1)

\* this.errorCount > this.maxErrors
SkipAtCeiling(n) == n >= maxErrors
SkipDue(n) == n > maxErrors

\* cleanupPreloadQueue: distance of a cached url from the cursor
Distance(u, cur) == JsRem(IndexOf(u) - cur + Length, Length)
EvictLate(u, cur, buf) == Distance(u, cur) > buf + 1 /\ u # UrlAt(cur)
Evict(u, cur, buf) == Distance(u, cur) > buf /\ u # UrlAt(cur)
CleanupPreloadQueue(cur, buf) == {u \in preloadedVideos : ~Evict(u, cur, buf)}

\* updatePreloadQueue: the urls of the next buf playlist entries
WindowFromCursor(cur, buf) == {UrlAt(JsRem(cur + i, Length)) : i \in 0..(buf - 1)}
Window(cur, buf) == {UrlAt(JsRem(cur + i, Length)) : i \in 1..buf}
ToPreload(cur, buf) ==
  {u \in Window(cur, buf) : u \notin CleanupPreloadQueue(cur, buf) /\ u \notin loadingPromises}

\* the other slot
OtherSame(s) == s
Other(s) == IF s = "A" THEN "B" ELSE "A"

\* crossfade: the slot that is active after the swap
NewActiveKept == activeVideoElement
NewActive == inactiveVideoElement

\* the flag after a refused playVideo, which returns before the try block
FlagClearedOnRefusal == FALSE
FlagAfterRefusal == isTransitioning

Remove(s, k) == SubSeq(s, 1, k - 1) \o SubSeq(s, k + 1, Len(s))

\* destroy: the slots whose media listeners are removed (null is no slot)
DetachedInactiveOnly == {inactiveVideoElement}
DetachedSlots == {activeVideoElement, inactiveVideoElement}

\* callback(data) throws
Throws(cb) == cb = "t"

\* emit: the try / catch around callback(data)
CaughtNever(cb) == FALSE
Caught(cb) == TRUE

\* listeners.indexOf(callback), 1-based, 0 when absent
ListenerIndex(list, cb) ==
  IF \E k \in 1..Len(list) : list[k] = cb
  THEN CHOOSE k \in 1..Len(list) : list[k] = cb /\ \A j \in 1..(k - 1) : list[j] # cb
  ELSE 0

\* off(event, callback) on the list of the event: indexOf, then splice
Spliced(list, cb) ==
  IF ListenerIndex(list, cb) > 0 THEN Remove(list, ListenerIndex(list, cb)) ELSE list

\* subscribers that call off() on the event they are called for: "o" for
\* itself, "r" for the subscriber "f"
Unsubscribers == {"o", "r"}
OffTarget(cb) == IF cb = "o" THEN "o" ELSE "f"

\* the list of the event when the subscriber at position k returns
AfterCall(list, k) ==
  IF list[k] \in Unsubscribers THEN Spliced(list, OffTarget(list[k])) ELSE list

\* emit: listeners.forEach from position k on, over the array itself: a
\* position is visited when the array still has it.  log holds the calls
\* made so far, each with the event whose list the subscriber was taken from
RECURSIVE ForEach(_, _, _, _)
ForEach(event, list, k, log) ==
  IF k > Len(list) THEN [invoked |-> log, threw |-> FALSE, listeners |-> list]
  ELSE IF Throws(list[k]) /\ ~Caught(list[k])
       THEN [invoked |-> Append(log, <<event, list[k]>>), threw |-> TRUE,
             listeners |-> list]
       ELSE ForEach(event, AfterCall(list, k), k + 1, Append(log, <<event, list[k]>>))

\* emit(event, data)
EmitResult(event) == ForEach(event, eventListeners[event], 1, <<>>)

\* the number of calls of the subscribers of the application in a log
AppCalls(log) == Cardinality({k \in 1..Len(log) : log[k][2] = "app"})

(***************************************************************************)
(* Init: the state the VideoManager constructor leaves.                    *)
(***************************************************************************)
SchedulerInit ==
  /\ videoUrls = <<>>
  /\ currentIndex = -1
  /\ activeVideoElement = "null"
  /\ inactiveVideoElement = "null"
  /\ isTransitioning = FALSE
  /\ preloadedVideos = {}
  /\ loadingPromises = {}
  /\ errorCount = 0
  /\ preloadBufferSize \in {PRELOAD_BUFFER_SIZE_MOBILE, PRELOAD_BUFFER_SIZE_DESKTOP}
  /\ src = [s \in Slots |-> "none"]
  /\ listeners = {}
  /\ calls = <<>>
  /\ preloads = [u \in UrlKeys |-> 0]
  /\ retryTimers = 0
  /\ activeErrored = FALSE
  /\ unhandledRejection = FALSE
  /\ playNextCalls = 0
  /\ retriesScheduled = 0
  /\ lastSettled = "none"
  /\ lastPlayed = -1
  /\ parity = 0
  /\ evicted = FALSE
  /\ eventListeners = [e \in Events |-> <<>>]
  /\ invoked = <<>>
  /\ emitThrew = FALSE
  /\ destroyed = FALSE
  /\ orphans = [u \in UrlKeys |-> 0]
  /\ thrown = "none"
  /\ position = "none"
  /\ appTimers = 0
  /\ paused = [s \in Slots |-> TRUE]

\* the state the DreamsAndPoemsApp constructor leaves
PageInit ==
  /\ isPlaying = FALSE
  /\ isPaused = FALSE
  /\ pausedByPageHide = FALSE
  /\ hidden = FALSE
  /\ resumes = {}

\* the state the UIController constructor and initialize() leave
UIInit ==
  /\ uiVisible = FALSE
  /\ uiHide = 0
  /\ hideTimers = {}
  /\ inThrottle = FALSE
  /\ interacted = FALSE

\* the context types of the errors handed to handleError: "promise_rejection"
\* is a rejection whose reason is a string, so that errorInfo.message is undefined
ErrorTypes == {"video", "ui", "memory", "network", "javascript", "promise_rejection",
               "recovery_error"}
StrategyKeys == {"video_load_error", "ui_error", "memory_error", "network_error"}
\* where an attemptRecovery execution waits: for its delay (with the context
\* type of its error), for its strategy, or for fallbackRecovery
Stages == ErrorTypes \cup StrategyKeys \cup {"fallback"}

\* the state the ErrorBoundary constructor leaves
BoundaryInit ==
  /\ hasError = FALSE
  /\ recoveryAttempts = 0
  /\ recoveries = [st \in Stages |-> 0]
  /\ resolvedTrue = 0

\* no call of ErrorUtils.retry yet
RetryInit ==
  /\ maxAttempts = 3
  /\ func = <<>>
  /\ attempt = 1
  /\ lastError = "undefined"
  /\ retryPc = "idle"
  /\ settledWith = "none"
  /\ funcCalls = 0

\* the dynamic cache of a service worker that has just been installed
SwInit == swCache = <<>>

Init ==
  /\ SchedulerInit
  /\ PageInit
  /\ UIInit
  /\ BoundaryInit
  /\ RetryInit
  /\ SwInit

(***************************************************************************)
(* initialize(videoA, videoB, videoUrls) with setVideoUrls, as             *)
(* initializeVideoManager calls it: when it returns, the application       *)
(* subscribes to the events (setupVideoManagerEvents); when it throws, the *)
(* error goes to the caller.                                               *)
(***************************************************************************)
Initialize(urls, rnd) ==
  /\ Length = 0
  /\ activeVideoElement' = "A"
  /\ inactiveVideoElement' = "B"
  /\ IF urls = <<>>
     THEN /\ thrown' = "Invalid video URLs provided"
          /\ UNCHANGED <<videoUrls, eventListeners>>
     ELSE IF Filter(urls) = <<>>
     THEN /\ thrown' = "No valid video URLs found"
          /\ UNCHANGED <<videoUrls, eventListeners>>
     ELSE /\ thrown' = "none"
          /\ videoUrls' = shuffle(Filter(urls), Len(Filter(urls)) - 1, rnd)
          /\ eventListeners' = [e \in Events |-> Append(eventListeners[e], "app")]
  /\ UNCHANGED <<currentIndex, isTransitioning, preloadedVideos, loadingPromises,
                 errorCount, preloadBufferSize, src, listeners, calls, preloads,
                 retryTimers, activeErrored, unhandledRejection, playNextCalls,
                 retriesScheduled, lastSettled, lastPlayed, parity, evicted>>
  /\ UNCHANGED <<invoked, emitThrew, destroyed, orphans>>
  /\ UNCHANGED <<position, appTimers>>
  /\ UNCHANGED <<paused, componentVars>>

(***************************************************************************)
(* playVideo(index) up to its first await, once the busy guard has let it  *)
(* pass: the flag is set, the cursor moves to the target and the inactive  *)
(* slot is given the url of the target and starts loading, be it through   *)
(* usePreloadedVideo or loadNewVideo: both set the same src, load the slot *)
(* and end with canplay or a rejection.  rest are the other executions in  *)
(* flight.                                                                 *)
(***************************************************************************)
\* the test playVideo makes before usePreloadedVideo: the url is cached, and
\* its handle, which was cached on canplaythrough, is ready
UsePreloadedOrInFlight(url) == url \in preloadedVideos \cup loadingPromises
UsePreloaded(url) == url \in preloadedVideos

Call(index) ==
  [arg |-> index, phase |-> "loading", from |-> activeVideoElement,
   via |-> IF UsePreloaded(UrlAt(Normalize(index)))
           THEN "usePreloadedVideo" ELSE "loadNewVideo"]

StartPlayVideo(index, rest) ==
  /\ currentIndex' = Normalize(index)
  /\ src' = [src EXCEPT ![inactiveVideoElement] = UrlAt(Normalize(index))]
  /\ calls' = Append(rest, Call(index))

(***************************************************************************)
(* The commands of the UI layer.  op is playVideo, playNext, playPrevious  *)
(* or playRandom; viaApp says that the command came through the wrapper of *)
(* DreamsAndPoemsApp, which returns at once while a transition runs.  A    *)
(* refused playVideo returns a rejected promise, which the caller handles. *)
(***************************************************************************)
NavOps == {"playNext", "playPrevious", "playRandom"}

Targets(op) ==
  CASE op = "playNext" -> {NextIndex}
    [] op = "playPrevious" -> {PrevIndex}
    [] op = "playRandom" -> RandomIndexes
    [] OTHER -> (0 - MaxOver)..(Length - 1 + MaxOver)

Command(op, viaApp) ==
  /\ viaApp => op \in NavOps
  /\ IF (viaApp /\ isTransitioning) \/ Busy
     THEN /\ isTransitioning' = FlagAfterRefusal
          /\ UNCHANGED <<currentIndex, src, calls>>
     ELSE /\ \E index \in Targets(op) : StartPlayVideo(index, calls)
          /\ isTransitioning' = TRUE
  /\ UNCHANGED <<videoUrls, activeVideoElement, inactiveVideoElement, preloadedVideos,
                 loadingPromises, errorCount, preloadBufferSize, listeners, preloads,
                 retryTimers, activeErrored, unhandledRejection, playNextCalls,
                 retriesScheduled, lastSettled, lastPlayed, parity, evicted>>
  /\ UNCHANGED <<eventListeners, invoked, emitThrew, destroyed, orphans, thrown>>
  /\ UNCHANGED <<position, appTimers>>
  /\ UNCHANGED <<paused, componentVars>>

(***************************************************************************)
(* updatePreloadQueue(): cleanupPreloadQueue, then preloadVideo(url), up   *)
(* to its await, for every url of the window that is neither cached nor in *)
(* loadingPromises.                                                        *)
(***************************************************************************)
UpdatePreloadQueue(cur, buf) ==
  /\ preloadedVideos' = CleanupPreloadQueue(cur, buf)
  /\ evicted' = (CleanupPreloadQueue(cur, buf) # preloadedVideos)
  /\ loadingPromises' = loadingPromises \cup ToPreload(cur, buf)
  /\ preloads' = [u \in UrlKeys |->
                    IF u \in ToPreload(cur, buf) THEN preloads[u] + 1 ELSE preloads[u]]

(***************************************************************************)
(* handleVideoError(video, error) up to its end or its await: count, emit  *)
(* videoError, then either playNext() or the retry timer.  It runs inside  *)
(* the catch block of playVideo (inCatch, the finally block then clears    *)
(* the flag) or as the error handler of the active slot.  Nobody handles   *)
(* the promise it returns.                                                 *)
(***************************************************************************)
HandleVideoError(inCatch, rest) ==
  /\ errorCount' = errorCount + 1
  /\ invoked' = EmitResult("videoError").invoked
  /\ emitThrew' = EmitResult("videoError").threw
  /\ eventListeners' =
       [eventListeners EXCEPT !["videoError"] = EmitResult("videoError").listeners]
  /\ appTimers' = appTimers + AppCalls(EmitResult("videoError").invoked)
  /\ IF SkipDue(errorCount + 1)
     THEN /\ playNextCalls' = playNextCalls + 1
          /\ UNCHANGED <<retryTimers, retriesScheduled>>
          /\ IF Busy
             THEN /\ unhandledRejection' = TRUE
                  /\ calls' = rest
                  /\ isTransitioning' = (~inCatch /\ isTransitioning)
                  /\ UNCHANGED <<currentIndex, src>>
             ELSE /\ StartPlayVideo(NextIndex, rest)
                  /\ isTransitioning' = ~inCatch
                  /\ UNCHANGED unhandledRejection
     ELSE /\ retryTimers' = retryTimers + 1
          /\ retriesScheduled' = retriesScheduled + 1
          /\ calls' = rest
          /\ isTransitioning' = (~inCatch /\ isTransitioning)
          /\ UNCHANGED <<currentIndex, src, unhandledRejection, playNextCalls>>

(***************************************************************************)
(* The load of an accepted playVideo ends: canplay (LoadOk), or an error   *)
(* or the timeout (LoadFail).  The resource named "undefined" does not     *)
(* exist: its load fails.  After canplay, crossfade() starts the playback  *)
(* of the inactive slot and its timer.                                     *)
(***************************************************************************)
LoadOk(k) ==
  /\ k \in 1..Len(calls)
  /\ calls[k].phase = "loading"
  /\ src[inactiveVideoElement] # Undefined
  /\ calls' = [calls EXCEPT ![k].phase = "crossfade"]
  /\ paused' = [paused EXCEPT ![inactiveVideoElement] = FALSE]
  /\ UNCHANGED <<videoUrls, currentIndex, activeVideoElement, inactiveVideoElement,
                 isTransitioning, preloadedVideos, loadingPromises, errorCount,
                 preloadBufferSize, src, listeners, preloads, retryTimers,
                 activeErrored, unhandledRejection, playNextCalls, retriesScheduled,
                 lastSettled, lastPlayed, parity, evicted>>
  /\ UNCHANGED <<eventListeners, invoked, emitThrew, destroyed, orphans, thrown>>
  /\ UNCHANGED <<position, appTimers>>
  /\ UNCHANGED componentVars

LoadFail(k, cap) ==
  /\ k \in 1..Len(calls)
  /\ calls[k].phase = "loading"
  /\ errorCount < cap
  /\ HandleVideoError(TRUE, Remove(calls, k))
  /\ lastSettled' = "failed"
  /\ UNCHANGED <<videoUrls, activeVideoElement, inactiveVideoElement, preloadedVideos,
                 loadingPromises, preloadBufferSize, listeners, preloads,
                 activeErrored, lastPlayed, parity, evicted>>
  /\ UNCHANGED <<destroyed, orphans, thrown>>
  /\ UNCHANGED position
  /\ UNCHANGED <<paused, componentVars>>

(***************************************************************************)
(* The crossfade timer: swap the slots, pause the new inactive slot, move  *)
(* the listeners to the new active slot; playVideo resumes with            *)
(* updatePreloadQueue() and its finally block.                             *)
(***************************************************************************)
\* a playVideo that succeeds leaves the error counter as it is
ErrorCountForgiven == IF errorCount > 0 THEN errorCount - 1 ELSE errorCount
ErrorCountAfterPlay == errorCount

CrossfadeDone(k) ==
  /\ k \in 1..Len(calls)
  /\ calls[k].phase = "crossfade"
  /\ errorCount' = ErrorCountAfterPlay
  /\ activeVideoElement' = NewActive
  /\ inactiveVideoElement' = Other(NewActive)
  /\ listeners' = (listeners \ {Other(NewActive)}) \cup {NewActive}
  /\ paused' = [paused EXCEPT ![Other(NewActive)] = TRUE]
  /\ activeErrored' = FALSE
  /\ UpdatePreloadQueue(currentIndex, preloadBufferSize)
  /\ isTransitioning' = FALSE
  /\ calls' = Remove(calls, k)
  /\ position' = "early"
  /\ lastSettled' = "played"
  /\ lastPlayed' = currentIndex
  /\ parity' = 1 - parity
  /\ UNCHANGED <<videoUrls, currentIndex, preloadBufferSize, src,
                 retryTimers, unhandledRejection, playNextCalls, retriesScheduled>>
  /\ UNCHANGED <<eventListeners, invoked, emitThrew, destroyed, orphans, thrown>>
  /\ UNCHANGED appTimers
  /\ UNCHANGED componentVars

(***************************************************************************)
(* The error event of the active slot, delivered to the error handler of   *)
(* createVideoEventHandler.                                                *)
(***************************************************************************)
ActiveError(cap) ==
  /\ activeVideoElement \in listeners
  /\ ~activeErrored
  /\ errorCount < cap
  /\ activeErrored' = TRUE
  /\ HandleVideoError(FALSE, calls)
  /\ UNCHANGED <<videoUrls, activeVideoElement, inactiveVideoElement, preloadedVideos,
                 loadingPromises, preloadBufferSize, listeners, preloads,
                 lastSettled, lastPlayed, parity, evicted>>
  /\ UNCHANGED <<destroyed, orphans, thrown>>
  /\ UNCHANGED position
  /\ UNCHANGED <<paused, componentVars>>

(***************************************************************************)
(* The retry timer of handleVideoError fires: retryCurrentVideo() unless a *)
(* transition is under way.  retryCurrentVideo answers a refused playVideo *)
(* with playNext().                                                        *)
(***************************************************************************)
\* the test the timer callback makes before it retries
RetryAlways == TRUE
RetryDue == ~isTransitioning

RetryTimer ==
  /\ retryTimers > 0
  /\ retryTimers' = retryTimers - 1
  /\ IF ~RetryDue
     THEN UNCHANGED <<currentIndex, src, calls, isTransitioning,
                      unhandledRejection, playNextCalls>>
     ELSE IF Busy
          THEN /\ playNextCalls' = playNextCalls + 1
               /\ unhandledRejection' = TRUE
               /\ UNCHANGED <<currentIndex, src, calls, isTransitioning>>
          ELSE /\ StartPlayVideo(currentIndex, calls)
               /\ isTransitioning' = TRUE
               /\ UNCHANGED <<unhandledRejection, playNextCalls>>
  /\ UNCHANGED <<videoUrls, activeVideoElement, inactiveVideoElement, preloadedVideos,
                 loadingPromises, errorCount, preloadBufferSize, listeners, preloads,
                 activeErrored, retriesScheduled, lastSettled, lastPlayed, parity, evicted>>
  /\ UNCHANGED <<eventListeners, invoked, emitThrew, destroyed, orphans, thrown>>
  /\ UNCHANGED <<position, appTimers>>
  /\ UNCHANGED <<paused, componentVars>>

(***************************************************************************)
(* A preload ends: canplaythrough (PreloadOk), or an error or the timeout  *)
(* (PreloadFail).                                                          *)
(***************************************************************************)
PreloadOk(u) ==
  /\ preloads[u] > 0
  /\ u # Undefined
  /\ preloads' = [preloads EXCEPT ![u] = @ - 1]
  /\ preloadedVideos' = preloadedVideos \cup {u}
  /\ loadingPromises' = loadingPromises \ {u}
  /\ UNCHANGED <<videoUrls, currentIndex, activeVideoElement, inactiveVideoElement,
                 isTransitioning, errorCount, preloadBufferSize, src, listeners, calls,
                 retryTimers, activeErrored, unhandledRejection, playNextCalls,
                 retriesScheduled, lastSettled, lastPlayed, parity, evicted>>
  /\ UNCHANGED <<eventListeners, invoked, emitThrew, destroyed, orphans, thrown>>
  /\ UNCHANGED <<position, appTimers>>
  /\ UNCHANGED <<paused, componentVars>>

\* the catch block of preloadVideo deletes the marker of its url
MarkersKept(u) == loadingPromises
MarkersAfterFailure(u) == loadingPromises \ {u}

PreloadFail(u) ==
  /\ preloads[u] > 0
  /\ preloads' = [preloads EXCEPT ![u] = @ - 1]
  /\ loadingPromises' = MarkersAfterFailure(u)
  /\ UNCHANGED <<videoUrls, currentIndex, activeVideoElement, inactiveVideoElement,
                 isTransitioning, preloadedVideos, errorCount, preloadBufferSize, src,
                 listeners, calls, retryTimers, activeErrored, unhandledRejection,
                 playNextCalls, retriesScheduled, lastSettled, lastPlayed, parity, evicted>>
  /\ UNCHANGED <<eventListeners, invoked, emitThrew, destroyed, orphans, thrown>>
  /\ UNCHANGED <<position, appTimers>>
  /\ UNCHANGED <<paused, componentVars>>

(***************************************************************************)
(* DreamsAndPoemsApp.handleResize: a change of device class changes the    *)
(* buffer size and runs updatePreloadQueue().                              *)
(***************************************************************************)
HandleResize(isMobile) ==
  LET newBufferSize == IF isMobile THEN PRELOAD_BUFFER_SIZE_MOBILE
                       ELSE PRELOAD_BUFFER_SIZE_DESKTOP
  IN /\ Length > 0
     /\ preloadBufferSize # newBufferSize
     /\ preloadBufferSize' = newBufferSize
     /\ UpdatePreloadQueue(currentIndex, newBufferSize)
     /\ UNCHANGED <<videoUrls, currentIndex, activeVideoElement, inactiveVideoElement,
                    isTransitioning, errorCount, src, listeners, calls, retryTimers,
                    activeErrored, unhandledRejection, playNextCalls, retriesScheduled,
                    lastSettled, lastPlayed, parity>>
     /\ UNCHANGED <<eventListeners, invoked, emitThrew, destroyed, orphans, thrown>>
     /\ UNCHANGED <<position, appTimers>>
     /\ UNCHANGED <<paused, componentVars>>

(***************************************************************************)
(* DreamsAndPoemsApp.loadInitialVideo: the first command, playVideo of a   *)
(* random index.                                                           *)
(***************************************************************************)
LoadInitialVideo(randomIndex) ==
  /\ Length > 0
  /\ currentIndex = -1
  /\ ~Busy
  /\ StartPlayVideo(randomIndex, calls)
  /\ isTransitioning' = TRUE
  /\ UNCHANGED <<videoUrls, activeVideoElement, inactiveVideoElement, preloadedVideos,
                 loadingPromises, errorCount, preloadBufferSize, listeners, preloads,
                 retryTimers, activeErrored, unhandledRejection, playNextCalls,
                 retriesScheduled, lastSettled, lastPlayed, parity, evicted>>
  /\ UNCHANGED <<eventListeners, invoked, emitThrew, destroyed, orphans, thrown>>
  /\ UNCHANGED <<position, appTimers>>
  /\ UNCHANGED <<paused, componentVars>>

(***************************************************************************)
(* on(event, callback), off(event, callback) and emit(event, data).        *)
(***************************************************************************)
On(event, cb) ==
  /\ Len(eventListeners[event]) < MaxListeners
  /\ eventListeners' = [eventListeners EXCEPT ![event] = Append(@, cb)]
  /\ UNCHANGED <<videoUrls, currentIndex, activeVideoElement, inactiveVideoElement,
                 isTransitioning, preloadedVideos, loadingPromises, errorCount,
                 preloadBufferSize, src, listeners, calls, preloads, retryTimers,
                 activeErrored, unhandledRejection, playNextCalls, retriesScheduled,
                 lastSettled, lastPlayed, parity, evicted, invoked, emitThrew,
                 destroyed, orphans, thrown>>
  /\ UNCHANGED <<position, appTimers>>
  /\ UNCHANGED <<paused, componentVars>>

Off(event, cb) ==
  /\ eventListeners' = [eventListeners EXCEPT ![event] = Spliced(@, cb)]
  /\ UNCHANGED <<videoUrls, currentIndex, activeVideoElement, inactiveVideoElement,
                 isTransitioning, preloadedVideos, loadingPromises, errorCount,
                 preloadBufferSize, src, listeners, calls, preloads, retryTimers,
                 activeErrored, unhandledRejection, playNextCalls, retriesScheduled,
                 lastSettled, lastPlayed, parity, evicted, invoked, emitThrew,
                 destroyed, orphans, thrown>>
  /\ UNCHANGED <<position, appTimers>>
  /\ UNCHANGED <<paused, componentVars>>

Emit(event) ==
  /\ invoked' = EmitResult(event).invoked
  /\ emitThrew' = EmitResult(event).threw
  /\ eventListeners' = [eventListeners EXCEPT ![event] = EmitResult(event).listeners]
  /\ UNCHANGED <<videoUrls, currentIndex, activeVideoElement, inactiveVideoElement,
                 isTransitioning, preloadedVideos, loadingPromises, errorCount,
                 preloadBufferSize, src, listeners, calls, preloads, retryTimers,
                 activeErrored, unhandledRejection, playNextCalls, retriesScheduled,
                 lastSettled, lastPlayed, parity, evicted,
                 destroyed, orphans, thrown>>
  /\ UNCHANGED <<position, appTimers>>
  /\ UNCHANGED <<paused, componentVars>>

(***************************************************************************)
(* destroy(): clears the preload cache, the in-flight map and the          *)
(* subscriber registry and removes the media listeners from both slots.    *)
(* It touches no timer and no promise: the preloads in flight go on, and   *)
(* so do the retry timers and the playVideo executions.                    *)
(***************************************************************************)
Destroy ==
  /\ preloadedVideos' = {}
  /\ loadingPromises' = {}
  /\ eventListeners' = [e \in Events |-> <<>>]
  /\ listeners' = listeners \ DetachedSlots
  /\ destroyed' = TRUE
  /\ orphans' = [u \in UrlKeys |-> orphans[u] + preloads[u]]
  /\ preloads' = [u \in UrlKeys |-> 0]
  /\ UNCHANGED <<videoUrls, currentIndex, activeVideoElement, inactiveVideoElement,
                 isTransitioning, errorCount, preloadBufferSize, src, calls,
                 retryTimers, activeErrored, unhandledRejection, playNextCalls,
                 retriesScheduled, lastSettled, lastPlayed, parity, evicted,
                 invoked, emitThrew, thrown>>
  /\ UNCHANGED <<position, appTimers>>
  /\ UNCHANGED <<paused, componentVars>>

(***************************************************************************)
(* A preload that was in flight when destroy() ran ends: preloadVideo goes *)
(* on after its await as it always does.                                   *)
(***************************************************************************)
StalePreloadOk(u) ==
  /\ orphans[u] > 0
  /\ u # Undefined
  /\ orphans' = [orphans EXCEPT ![u] = @ - 1]
  /\ preloadedVideos' = preloadedVideos \cup {u}
  /\ loadingPromises' = loadingPromises \ {u}
  /\ UNCHANGED <<videoUrls, currentIndex, activeVideoElement, inactiveVideoElement,
                 isTransitioning, errorCount, preloadBufferSize, src, listeners, calls,
                 preloads, retryTimers, activeErrored, unhandledRejection,
                 playNextCalls, retriesScheduled, lastSettled, lastPlayed, parity,
                 evicted, eventListeners, invoked, emitThrew, destroyed, thrown>>
  /\ UNCHANGED <<position, appTimers>>
  /\ UNCHANGED <<paused, componentVars>>

StalePreloadFail(u) ==
  /\ orphans[u] > 0
  /\ orphans' = [orphans EXCEPT ![u] = @ - 1]
  /\ loadingPromises' = loadingPromises \ {u}
  /\ UNCHANGED <<videoUrls, currentIndex, activeVideoElement, inactiveVideoElement,
                 isTransitioning, preloadedVideos, errorCount, preloadBufferSize, src,
                 listeners, calls, preloads, retryTimers, activeErrored,
                 unhandledRejection, playNextCalls, retriesScheduled, lastSettled,
                 lastPlayed, parity, evicted, eventListeners, invoked, emitThrew,
                 destroyed, thrown>>
  /\ UNCHANGED <<position, appTimers>>
  /\ UNCHANGED <<paused, componentVars>>

(***************************************************************************)
(* The canplay event of the active slot, delivered to the canplay handler  *)
(* of createVideoEventHandler: the slot raises it each time it has         *)
(* buffered enough to go on playing, after a stall as well.  The handler   *)
(* deletes what loadingPromises holds under the src of the slot.           *)
(***************************************************************************)
ActiveCanPlay ==
  /\ activeVideoElement \in listeners
  /\ src[activeVideoElement] \in loadingPromises
  /\ preloads[src[activeVideoElement]] < MaxInFlight
  /\ loadingPromises' = loadingPromises \ {src[activeVideoElement]}
  /\ UNCHANGED <<videoUrls, currentIndex, activeVideoElement, inactiveVideoElement,
                 isTransitioning, preloadedVideos, errorCount, preloadBufferSize, src,
                 listeners, calls, preloads, retryTimers, activeErrored,
                 unhandledRejection, playNextCalls, retriesScheduled, lastSettled,
                 lastPlayed, parity, evicted, eventListeners, invoked, emitThrew,
                 destroyed, orphans, thrown>>
  /\ UNCHANGED <<position, appTimers>>
  /\ UNCHANGED <<paused, componentVars>>

(***************************************************************************)
(* DreamsAndPoemsApp.playNext as the handlers of the application call it:  *)
(* it returns at once while a transition runs, and catches what playNext   *)
(* of the scheduler rejects with.                                          *)
(***************************************************************************)
AppPlayNext ==
  IF isTransitioning \/ Busy
  THEN /\ isTransitioning' = FlagAfterRefusal
       /\ UNCHANGED <<currentIndex, src, calls>>
  ELSE /\ StartPlayVideo(NextIndex, calls)
       /\ isTransitioning' = TRUE

\* this.state.autoplay, as the constructor sets it
Autoplay == TRUE

\* the application is subscribed to the event (setupVideoManagerEvents)
AppSubscribed(event) == AppCalls(EmitResult(event).invoked) > 0

\* handleTimeUpdate starts the next video in the last 3.2 seconds
AutoplayDue(pos) == Autoplay /\ ~isTransitioning /\ pos = "final"

(***************************************************************************)
(* The video of the active slot plays on into its last 3.2 seconds.        *)
(***************************************************************************)
Advance ==
  /\ position = "early"
  /\ position' = "final"
  /\ UNCHANGED <<videoUrls, currentIndex, activeVideoElement, inactiveVideoElement,
                 isTransitioning, preloadedVideos, loadingPromises, errorCount,
                 preloadBufferSize, src, listeners, calls, preloads, retryTimers,
                 activeErrored, unhandledRejection, playNextCalls, retriesScheduled,
                 lastSettled, lastPlayed, parity, evicted, eventListeners, invoked,
                 emitThrew, destroyed, orphans, thrown, appTimers>>
  /\ UNCHANGED <<paused, componentVars>>

(***************************************************************************)
(* The timeupdate event of the active slot: the scheduler emits            *)
(* timeUpdate, and handleTimeUpdate of the application calls playNext()    *)
(* when less than 3.2 seconds remain and no transition runs.               *)
(***************************************************************************)
TimeUpdate ==
  /\ activeVideoElement \in listeners
  /\ position \in {"early", "final"}
  /\ invoked' = EmitResult("timeUpdate").invoked
  /\ emitThrew' = EmitResult("timeUpdate").threw
  /\ eventListeners' =
       [eventListeners EXCEPT !["timeUpdate"] = EmitResult("timeUpdate").listeners]
  /\ IF AppSubscribed("timeUpdate") /\ AutoplayDue(position)
     THEN AppPlayNext
     ELSE UNCHANGED <<currentIndex, src, calls, isTransitioning>>
  /\ UNCHANGED <<videoUrls, activeVideoElement, inactiveVideoElement,
                 preloadedVideos, loadingPromises, errorCount,
                 preloadBufferSize, listeners, preloads, retryTimers,
                 activeErrored, unhandledRejection, playNextCalls, retriesScheduled,
                 lastSettled, lastPlayed, parity, evicted,
                 destroyed, orphans, thrown, position, appTimers>>
  /\ UNCHANGED <<paused, componentVars>>

(***************************************************************************)
(* The ended event of the active slot: the scheduler emits videoEnded, and *)
(* the application calls playNext() when autoplay is on.                   *)
(***************************************************************************)
Ended ==
  /\ activeVideoElement \in listeners
  /\ position = "final"
  /\ position' = "ended"
  /\ invoked' = EmitResult("videoEnded").invoked
  /\ emitThrew' = EmitResult("videoEnded").threw
  /\ eventListeners' =
       [eventListeners EXCEPT !["videoEnded"] = EmitResult("videoEnded").listeners]
  /\ IF AppSubscribed("videoEnded") /\ Autoplay
     THEN AppPlayNext
     ELSE UNCHANGED <<currentIndex, src, calls, isTransitioning>>
  /\ UNCHANGED <<videoUrls, activeVideoElement, inactiveVideoElement,
                 preloadedVideos, loadingPromises, errorCount,
                 preloadBufferSize, listeners, preloads, retryTimers,
                 activeErrored, unhandledRejection, playNextCalls, retriesScheduled,
                 lastSettled, lastPlayed, parity, evicted,
                 destroyed, orphans, thrown, appTimers>>
  /\ UNCHANGED <<paused, componentVars>>

(***************************************************************************)
(* The timer of DreamsAndPoemsApp.handleVideoError fires, one second after *)
(* a videoError: playNext().                                               *)
(***************************************************************************)
AppErrorTimer ==
  /\ appTimers > 0
  /\ appTimers' = appTimers - 1
  /\ AppPlayNext
  /\ UNCHANGED <<videoUrls, activeVideoElement, inactiveVideoElement,
                 preloadedVideos, loadingPromises, errorCount,
                 preloadBufferSize, listeners, preloads, retryTimers,
                 activeErrored, unhandledRejection, playNextCalls, retriesScheduled,
                 lastSettled, lastPlayed, parity, evicted, eventListeners, invoked,
                 emitThrew, destroyed, orphans, thrown, position>>
  /\ UNCHANGED <<paused, componentVars>>

(***************************************************************************)
(* DreamsAndPoemsApp.pauseVideo and resumeVideo.  play() takes the slot    *)
(* out of its paused state at once; its promise settles later.             *)
(***************************************************************************)
PauseVideo ==
  IF activeVideoElement # "null" /\ ~isPaused
  THEN /\ paused' = [paused EXCEPT ![activeVideoElement] = TRUE]
       /\ isPaused' = TRUE
       /\ isPlaying' = FALSE
       /\ UNCHANGED resumes
  ELSE UNCHANGED <<paused, isPaused, isPlaying, resumes>>

ResumeVideo ==
  IF activeVideoElement # "null" /\ isPaused
  THEN /\ paused' = [paused EXCEPT ![activeVideoElement] = FALSE]
       /\ resumes' = resumes \cup {activeVideoElement}
       /\ UNCHANGED <<isPaused, isPlaying>>
  ELSE UNCHANGED <<paused, isPaused, isPlaying, resumes>>

\* mouseDown, holdStart
UserPause ==
  /\ ~hidden
  /\ PauseVideo
  /\ UNCHANGED <<restVars, schedulerVars, pausedByPageHide, hidden>>

\* mouseUp, holdEnd, tap
UserResume ==
  /\ ~hidden
  /\ ResumeVideo
  /\ UNCHANGED <<restVars, schedulerVars, pausedByPageHide, hidden>>

\* playPause: togglePlayPause
PlayPause ==
  /\ ~hidden
  /\ activeVideoElement # "null"
  /\ IF isPlaying THEN PauseVideo ELSE ResumeVideo
  /\ UNCHANGED <<restVars, schedulerVars, pausedByPageHide, hidden>>

\* the play() promise of resumeVideo on slot s is fulfilled: playback has
\* begun, which takes a resource that exists
PlayResolved(s) ==
  /\ s \in resumes
  /\ ~paused[s]
  /\ src[s] \in Urls
  /\ resumes' = resumes \ {s}
  /\ isPaused' = FALSE
  /\ isPlaying' = TRUE
  /\ UNCHANGED <<restVars, schedulerVars, paused, pausedByPageHide, hidden>>

\* it is rejected: the slot was paused before playback began
PlayRejected(s) ==
  /\ s \in resumes
  /\ paused[s]
  /\ resumes' = resumes \ {s}
  /\ UNCHANGED <<restVars, schedulerVars, paused, isPaused, isPlaying, pausedByPageHide, hidden>>

(***************************************************************************)
(* visibilitychange: handlePageHidden and handlePageVisible.               *)
(***************************************************************************)
PageHidden ==
  /\ ~hidden
  /\ hidden' = TRUE
  /\ IF isPlaying
     THEN /\ PauseVideo
          /\ pausedByPageHide' = TRUE
     ELSE UNCHANGED <<paused, isPaused, isPlaying, resumes, pausedByPageHide>>
  /\ UNCHANGED <<schedulerVars, restVars>>

PageVisible ==
  /\ hidden
  /\ hidden' = FALSE
  /\ IF pausedByPageHide
     THEN /\ ResumeVideo
          /\ pausedByPageHide' = FALSE
     ELSE UNCHANGED <<paused, isPaused, isPlaying, resumes, pausedByPageHide>>
  /\ UNCHANGED <<schedulerVars, restVars>>

(***************************************************************************)
(* UIController: showUI, hideUI and the throttled uiVisibilityHandler that *)
(* the document calls on mousemove, mousedown, touchstart and keydown.     *)
(***************************************************************************)
TimerIds == 1..MaxTimerId

\* hideTimers after clearTimeout(this.timeouts.get('uiHide')), when the key is there
HideTimersCleared == IF uiHide # 0 THEN hideTimers \ {uiHide} ELSE hideTimers

\* the id setTimeout returns: none that is pending or held
FreeTimerIds == TimerIds \ (hideTimers \cup {uiHide})
NewTimerId == CHOOSE t \in FreeTimerIds : \A u \in FreeTimerIds : t <= u

ShowUI ==
  /\ uiVisible' = TRUE
  /\ hideTimers' = HideTimersCleared \cup {NewTimerId}
  /\ uiHide' = NewTimerId
  /\ interacted' = FALSE

HideUI ==
  /\ uiVisible' = FALSE
  /\ uiHide' = 0

\* PerformanceUtils.throttle(() => { if (!uiVisible) showUI() }, 100)
UiVisibilityHandler ==
  IF inThrottle
  THEN UNCHANGED uiVars
  ELSE /\ inThrottle' = TRUE
       /\ IF ~uiVisible
          THEN ShowUI
          ELSE /\ interacted' = TRUE
               /\ UNCHANGED <<uiVisible, uiHide, hideTimers>>

\* mousemove, mousedown, touchstart, or keydown of a key without a command
Interaction ==
  /\ FreeTimerIds # {}
  /\ UiVisibilityHandler
  /\ UNCHANGED <<schedulerVars, paused, pageVars, boundaryVars, retryVars, swVars>>

\* mousedown on the video container: the mouse handler emits mouseDown, which
\* the application answers with pauseVideo, then the event reaches the document
MouseDownOnVideo ==
  /\ ~hidden
  /\ FreeTimerIds # {}
  /\ PauseVideo
  /\ UiVisibilityHandler
  /\ UNCHANGED <<schedulerVars, pausedByPageHide, hidden, boundaryVars, retryVars, swVars>>

\* keydown of Space: the keyboard handler emits playPause and calls showUI,
\* then the document's uiVisibilityHandler finds the overlay visible
KeyCommand ==
  /\ ~hidden
  /\ FreeTimerIds # {}
  /\ IF activeVideoElement = "null"
     THEN UNCHANGED <<paused, isPaused, isPlaying, resumes>>
     ELSE IF isPlaying THEN PauseVideo ELSE ResumeVideo
  /\ ShowUI
  /\ inThrottle' = TRUE
  /\ UNCHANGED <<schedulerVars, pausedByPageHide, hidden, boundaryVars, retryVars, swVars>>

\* touchend on the video container
TouchEnd ==
  /\ FreeTimerIds # {}
  /\ ShowUI
  /\ UNCHANGED <<inThrottle, schedulerVars, paused, pageVars, boundaryVars, retryVars, swVars>>

\* the timer t that showUI armed fires: hideUI
HideTimer(t) ==
  /\ t \in hideTimers
  /\ HideUI
  /\ hideTimers' = HideTimersCleared \ {t}
  /\ UNCHANGED <<interacted, inThrottle, schedulerVars, paused, pageVars, boundaryVars, retryVars, swVars>>

\* the timer of throttle fires after its 100 ms
ThrottleRelease ==
  /\ inThrottle
  /\ inThrottle' = FALSE
  /\ UNCHANGED <<uiVisible, uiHide, hideTimers, interacted, schedulerVars, paused,
                 pageVars, boundaryVars, retryVars, swVars>>

(***************************************************************************)
(* ErrorBoundary: handleError, attemptRecovery with its recovery delay,    *)
(* the recovery strategies and fallbackRecovery.                           *)
(***************************************************************************)
RECURSIVE SumOver(_, _)
SumOver(f, S) ==
  IF S = {} THEN 0
  ELSE LET x == CHOOSE y \in S : TRUE IN f[x] + SumOver(f, S \ {x})

\* the attemptRecovery executions that have not settled
Pending == SumOver(recoveries, Stages)

\* recoveryAttempts < maxRecoveryAttempts: the guard of handleError, and of
\* attemptRecovery the other way round
RecoveryAlways == TRUE
RecoveryDue == recoveryAttempts < maxRecoveryAttempts

\* getRecoveryStrategy: "throws" when errorInfo.message is read as a string
\* and is undefined
GetRecoveryStrategy(type, onLine) ==
  IF type = "video" THEN "video_load_error"
  ELSE IF type = "ui" THEN "ui_error"
  ELSE IF type = "memory" THEN "memory_error"
  ELSE IF type = "promise_rejection" THEN "throws"
  ELSE IF type = "network" \/ ~onLine THEN "network_error"
  ELSE "generic"

\* handleError(error, {type}) as far as the state goes, with the synchronous
\* part of attemptRecovery, from the recoveries rec
HandleErrorFrom(type, rec) ==
  /\ hasError' = TRUE
  /\ IF RecoveryDue
     THEN /\ recoveryAttempts' = recoveryAttempts + 1
          /\ recoveries' = [rec EXCEPT ![type] = @ + 1]
     ELSE /\ recoveryAttempts' = recoveryAttempts
          /\ recoveries' = rec

\* an error reaches the boundary: a global error handler, a resource or a
\* network event
HandleError(type) ==
  /\ Pending < MaxPending
  /\ HandleErrorFrom(type, recoveries)
  /\ UNCHANGED <<resolvedTrue, schedulerVars, paused, pageVars, uiVars, retryVars, swVars>>

\* the recovery delay of an execution is over: the strategy is chosen and
\* started, or fallbackRecovery when there is none, or the choice throws and
\* the execution hands its error to handleError and resolves false
RecoveryDelayDone(type, onLine) ==
  /\ recoveries[type] > 0
  /\ LET key == GetRecoveryStrategy(type, onLine)
         rest == [recoveries EXCEPT ![type] = @ - 1]
     IN IF key = "throws"
        THEN HandleErrorFrom("recovery_error", rest)
        ELSE /\ recoveries' = [rest EXCEPT ![IF key = "generic" THEN "fallback" ELSE key] = @ + 1]
             /\ UNCHANGED <<hasError, recoveryAttempts>>
  /\ UNCHANGED <<resolvedTrue, schedulerVars, paused, pageVars, uiVars, retryVars, swVars>>

\* what the strategy of key does to the player before it returns true
StrategyEffect(key) ==
  /\ paused' = IF key = "video_load_error" THEN [s \in Slots |-> TRUE] ELSE paused
  /\ src' = IF key = "video_load_error" THEN [s \in Slots |-> "none"] ELSE src
  /\ preloadBufferSize' = IF key = "memory_error" THEN 1 ELSE preloadBufferSize
  /\ preloadedVideos' = IF key = "memory_error" /\ Length > 0
                        THEN CleanupPreloadQueue(currentIndex, 1)
                        ELSE preloadedVideos

\* the strategy of an execution returns true: the boundary is reset and the
\* execution resolves true
StrategyDone(key) ==
  /\ recoveries[key] > 0
  /\ recoveries' = [recoveries EXCEPT ![key] = @ - 1]
  /\ StrategyEffect(key)
  /\ hasError' = FALSE
  /\ recoveryAttempts' = 0
  /\ resolvedTrue' = (resolvedTrue + 1) % 2
  /\ UNCHANGED <<videoUrls, currentIndex, activeVideoElement, inactiveVideoElement,
                 isTransitioning, loadingPromises, errorCount, listeners, calls,
                 preloads, retryTimers, activeErrored, unhandledRejection,
                 playNextCalls, retriesScheduled, lastSettled, lastPlayed, parity,
                 evicted, eventListeners, invoked, emitThrew, destroyed, orphans,
                 thrown, position, appTimers, pageVars, uiVars, retryVars, swVars>>

\* fallbackRecovery returns true: resetApplicationState has replaced the
\* state of the application, and the execution resolves true
FallbackDone ==
  /\ recoveries["fallback"] > 0
  /\ recoveries' = [recoveries EXCEPT !["fallback"] = @ - 1]
  /\ isPlaying' = FALSE
  /\ isPaused' = FALSE
  /\ pausedByPageHide' = FALSE
  /\ resolvedTrue' = (resolvedTrue + 1) % 2
  /\ UNCHANGED <<hasError, recoveryAttempts, hidden, resumes, schedulerVars, paused,
                 uiVars, retryVars, swVars>>

\* clearErrorHistory()
ClearErrorHistory ==
  /\ hasError' = FALSE
  /\ recoveryAttempts' = 0
  /\ UNCHANGED <<recoveries, resolvedTrue, schedulerVars, paused, pageVars, uiVars, retryVars, swVars>>

(***************************************************************************)
(* ErrorUtils.retry(func, maxAttempts, baseDelay).  A call of func returns *)
(* a value or throws an error.                                             *)
(***************************************************************************)
Values == {"v1", "v2"}
Errors == {"e1", "e2"}
Behaviours == [1..MaxAttempts -> Values \cup Errors]

\* retry(f, n, baseDelay) is called: let lastError; attempt = 1
Retry(f, n) ==
  /\ retryPc = "idle"
  /\ func' = f
  /\ maxAttempts' = n
  /\ attempt' = 1
  /\ lastError' = "undefined"
  /\ retryPc' = "loop"
  /\ UNCHANGED <<settledWith, funcCalls, schedulerVars, paused, pageVars, uiVars,
                 boundaryVars, swVars>>

\* one pass of the loop, attempt <= maxAttempts: return await func(), or the
\* catch block
RetryAttempt ==
  /\ retryPc = "loop"
  /\ attempt <= maxAttempts
  /\ funcCalls' = funcCalls + 1
  /\ LET outcome == func[funcCalls + 1]
     IN IF outcome \in Values
        THEN /\ retryPc' = "resolved"
             /\ settledWith' = outcome
             /\ UNCHANGED lastError
        ELSE /\ lastError' = outcome
             /\ IF attempt = maxAttempts
                THEN /\ retryPc' = "rejected"
                     /\ settledWith' = outcome
                ELSE /\ retryPc' = "delay"
                     /\ UNCHANGED settledWith
  /\ UNCHANGED <<maxAttempts, func, attempt, schedulerVars, paused, pageVars, uiVars,
                 boundaryVars, swVars>>

\* the timer of the backoff delay fires: attempt++
RetryDelayDone ==
  /\ retryPc = "delay"
  /\ attempt' = attempt + 1
  /\ retryPc' = "loop"
  /\ UNCHANGED <<maxAttempts, func, lastError, settledWith, funcCalls, schedulerVars,
                 paused, pageVars, uiVars, boundaryVars, swVars>>

\* the loop condition fails: the function ends without a return statement
RetryLoopEnd ==
  /\ retryPc = "loop"
  /\ attempt > maxAttempts
  /\ retryPc' = "resolved"
  /\ settledWith' = "undefined"
  /\ UNCHANGED <<maxAttempts, func, attempt, lastError, funcCalls, schedulerVars,
                 paused, pageVars, uiVars, boundaryVars, swVars>>

(***************************************************************************)
(* The service worker: handleVideoFile with limitCacheSize and cache.put.  *)
(***************************************************************************)
VideoRequests == 1..MaxVideos

\* limitCacheSize: no key carries sw-cache-date, so the sort keeps the order
\* of cache.keys() and the oldest entries go
LimitCacheSize(cache, maxSize) ==
  IF Len(cache) > maxSize
  THEN SubSeq(cache, Len(cache) - maxSize + 1, Len(cache))
  ELSE cache

\* cache.put(request, response): the entry of the request is replaced
CachePut(cache, request) == SelectSeq(cache, LAMBDA r : r # request) \o <<request>>

\* handleVideoFile(request): ok is networkResponse.ok of a fetch that
\* succeeded, shouldCache the test of content-length
HandleVideoFile(request, ok, shouldCache) ==
  /\ swCache' = IF ok /\ shouldCache
                THEN CachePut(LimitCacheSize(swCache, MAX_VIDEO_CACHE_SIZE), request)
                ELSE swCache
  /\ UNCHANGED <<schedulerVars, paused, pageVars, uiVars, boundaryVars, retryVars>>

\* what the scheduler and the media elements do by themselves
Internal(cap) ==
  \/ \E urls \in InputLists : \E rnd \in RandomChoices(Len(Filter(urls))) :
       Initialize(urls, rnd)
  \/ \E randomIndex \in RandomIndexes : LoadInitialVideo(randomIndex)
  \/ \E k \in 1..Len(calls) : LoadOk(k)
  \/ \E k \in 1..Len(calls) : LoadFail(k, cap)
  \/ \E k \in 1..Len(calls) : CrossfadeDone(k)
  \/ ActiveError(cap)
  \/ RetryTimer
  \/ \E u \in UrlKeys : PreloadOk(u)
  \/ \E u \in UrlKeys : PreloadFail(u)

\* the scheduler with the commands of the UI layer: the application calls
\* playVideo itself with indexes of the playlist only (loadInitialVideo)
Next ==
  \/ Internal(MaxErrorCount)
  \/ \E op \in NavOps : \E viaApp \in BOOLEAN : Command(op, viaApp)
  \/ \E isMobile \in BOOLEAN : HandleResize(isMobile)

Spec == Init /\ [][Next]_vars

\* the same with playVideo(index) called on the scheduler for any index
NextApi ==
  \/ Next
  \/ Command("playVideo", FALSE)

SpecApi == Init /\ [][NextApi]_vars

\* the scheduler left to itself, with the canplay events of the active slot
\* and the resizes
NextMedia ==
  \/ Internal(MaxErrorCount)
  \/ ActiveCanPlay
  \/ \E isMobile \in BOOLEAN : HandleResize(isMobile)

SpecMedia == Init /\ [][NextMedia]_vars

\* the scheduler left to itself, cleanup() destroying it at any moment, and
\* what the timers and the loads in flight do afterwards.  cleanup() runs on
\* beforeunload, a handler the application installs in the task that ends
\* with loadInitialVideo(): the first command has been given by then, and no
\* other follows.
NextDestroy ==
  \/ Internal(MaxErrorCount)
  \/ currentIndex # -1 /\ Destroy
  \/ \E u \in UrlKeys : StalePreloadOk(u)
  \/ \E u \in UrlKeys : StalePreloadFail(u)

SpecDestroy == Init /\ [][NextDestroy]_vars

\* the event emitter on its own, with two of the events
EmitterEvents == {"videoError", "videoEnded"}

NextEmit ==
  \/ \E event \in EmitterEvents : \E cb \in Callbacks \ {"app"} : On(event, cb)
  \/ \E event \in EmitterEvents : \E cb \in Callbacks \ {"app"} : Off(event, cb)
  \/ \E event \in EmitterEvents : Emit(event)

SpecEmit == Init /\ [][NextEmit]_vars

\* the event emitter with subscribers that unsubscribe while they are called
NextEmitOff ==
  \/ \E event \in EmitterEvents : \E cb \in {"f"} \cup Unsubscribers : On(event, cb)
  \/ \E event \in EmitterEvents : \E cb \in {"f"} \cup Unsubscribers : Off(event, cb)
  \/ \E event \in EmitterEvents : Emit(event)

SpecEmitOff == Init /\ [][NextEmitOff]_vars

\* the scheduler and the application with autoplay on: the events of the
\* video that plays, the timers, and no command of the UI layer
NextAutoplay ==
  \/ Internal(MaxErrorCount)
  \/ Advance
  \/ TimeUpdate
  \/ Ended
  \/ AppErrorTimer

SpecAutoplay == Init /\ [][NextAutoplay]_vars

\* the application with a playlist that plays: pause and resume by the user
\* and by the visibility of the page, and playNext() of the application
NextPage ==
  \/ \E urls \in InputLists : \E rnd \in RandomChoices(Len(Filter(urls))) :
       Initialize(urls, rnd)
  \/ \E randomIndex \in RandomIndexes : LoadInitialVideo(randomIndex)
  \/ \E k \in 1..Len(calls) : LoadOk(k)
  \/ \E k \in 1..Len(calls) : CrossfadeDone(k)
  \/ Command("playNext", TRUE)
  \/ UserPause
  \/ UserResume
  \/ PlayPause
  \/ \E s \in Slots : PlayResolved(s)
  \/ \E s \in Slots : PlayRejected(s)
  \/ PageHidden
  \/ PageVisible

SpecPage == Init /\ [][NextPage]_vars

\* the overlay of the application with a playlist that plays
NextUi ==
  \/ \E urls \in InputLists : \E rnd \in RandomChoices(Len(Filter(urls))) :
       Initialize(urls, rnd)
  \/ \E randomIndex \in RandomIndexes : LoadInitialVideo(randomIndex)
  \/ \E k \in 1..Len(calls) : LoadOk(k)
  \/ \E k \in 1..Len(calls) : CrossfadeDone(k)
  \/ \E s \in Slots : PlayResolved(s)
  \/ \E s \in Slots : PlayRejected(s)
  \/ UserResume
  \/ Interaction
  \/ MouseDownOnVideo
  \/ KeyCommand
  \/ TouchEnd
  \/ \E t \in TimerIds : HideTimer(t)
  \/ ThrottleRelease

SpecUi == Init /\ [][NextUi]_vars

\* the error boundary: errors from outside, its recoveries, clearErrorHistory
NextBoundary ==
  \/ \E type \in ErrorTypes \ {"recovery_error"} : HandleError(type)
  \/ \E type \in ErrorTypes : \E onLine \in BOOLEAN : RecoveryDelayDone(type, onLine)
  \/ \E key \in StrategyKeys : StrategyDone(key)
  \/ FallbackDone
  \/ ClearErrorHistory

SpecBoundary == Init /\ [][NextBoundary]_vars

\* one call of ErrorUtils.retry with any behaviour of func
NextRetry ==
  \/ \E f \in Behaviours : \E n \in 0..MaxAttempts : Retry(f, n)
  \/ RetryAttempt
  \/ RetryDelayDone
  \/ RetryLoopEnd

SpecRetry == Init /\ [][NextRetry]_vars

\* the service worker answering video requests one after the other
NextSw ==
  \E request \in VideoRequests : \E ok \in BOOLEAN : \E shouldCache \in BOOLEAN :
    HandleVideoFile(request, ok, shouldCache)

SpecSw == Init /\ [][NextSw]_vars

\* the scheduler left to itself after the first command
NextAuto == Internal(MaxAutoErrors)

SpecAuto == Init /\ [][NextAuto]_vars

(***************************************************************************)
(* C1: transitions never overlap.  At most one playVideo execution is past *)
(* the busy guard, and isTransitioning is true exactly while one is: from  *)
(* the moment a call is accepted until it settles every other playVideo    *)
(* (a command, a retry timer, the playNext of handleVideoError) is refused *)
(* and the flag is false again once the accepted call has settled.         *)
(***************************************************************************)
C1_TransitionsNeverOverlap ==
  /\ Len(calls) <= 1
  /\ isTransitioning <=> (Len(calls) = 1)

\* an accepted call is in its crossfade while a retry timer is still pending
C1_Witness ==
  /\ isTransitioning
  /\ Len(calls) = 1
  /\ calls[1].phase = "crossfade"
  /\ retryTimers > 0

(***************************************************************************)
(* C2: playNext(), playPrevious() or playRandom(), called on the scheduler *)
(* or through the application, while isTransitioning is true change        *)
(* neither the cursor, the active slot, the inactive slot, the flag nor    *)
(* the transition in progress.                                             *)
(***************************************************************************)
C2_NavStep == \E op \in NavOps : \E viaApp \in BOOLEAN : Command(op, viaApp)

\* a step taken while isTransitioning is true either leaves them unchanged or
\* is not a navigation command
C2_NavWhileTransitioningIsNoOp ==
  [][isTransitioning =>
       \/ UNCHANGED <<currentIndex, activeVideoElement, inactiveVideoElement,
                      isTransitioning, calls, src>>
       \/ ~C2_NavStep]_vars

\* a load is in progress after a video has played: a navigation command
\* issued here is refused and leaves this state as it is
C2_Witness ==
  /\ isTransitioning
  /\ Len(calls) = 1
  /\ calls[1].phase = "loading"
  /\ lastSettled = "played"

(***************************************************************************)
(* C3: every successful playVideo swaps the roles of the two slots, so     *)
(* after an even number of successful calls slot A is active again and     *)
(* after an odd number slot B is; a call in flight has not swapped them.   *)
(***************************************************************************)
C3_SuccessSwapsSlots ==
  Length > 0 =>
    /\ activeVideoElement = (IF parity = 0 THEN "A" ELSE "B")
    /\ inactiveVideoElement = (IF parity = 0 THEN "B" ELSE "A")
    /\ \A k \in 1..Len(calls) : calls[k].from = activeVideoElement

\* the second of two successful calls in a row has settled
C3_Witness ==
  /\ lastSettled = "played"
  /\ parity = 0
  /\ errorCount = 0
  /\ activeVideoElement = "A"
  /\ ~isTransitioning

(***************************************************************************)
(* C4: playVideo(i) plays index i mod length with the mathematical         *)
(* modulo, for negative i and for i >= length too: while the call is in    *)
(* flight the cursor is i mod length, within 0..length-1, and the inactive *)
(* slot has been given playlist[i mod length].                             *)
(***************************************************************************)
C4_MathematicalModulo ==
  \A k \in 1..Len(calls) :
    /\ currentIndex = calls[k].arg % Length
    /\ currentIndex \in 0..(Length - 1)
    /\ src[inactiveVideoElement] = UrlAt(calls[k].arg % Length)

(***************************************************************************)
(* C5: the cursor equals the index of the last successful playVideo: once  *)
(* a call has settled, by success, load failure or timeout, the cursor is  *)
(* the index that played last (a failed call has not advanced it).         *)
(***************************************************************************)
C5_CursorIsLastPlayed == ~isTransitioning => currentIndex = lastPlayed

(***************************************************************************)
(* C6: a failure that takes the error counter above maxErrors forces the   *)
(* advance to the next index: the cursor becomes (cursor + 1) mod length   *)
(* and that index starts loading, whether the failure is the error event   *)
(* of the active slot or a load failure inside playVideo.                  *)
(***************************************************************************)
C6_FailureAboveCeiling == errorCount' = errorCount + 1 /\ errorCount' > maxErrors

C6_CeilingForcesNext ==
  [][C6_FailureAboveCeiling =>
       /\ currentIndex' = (currentIndex + 1) % Length
       /\ isTransitioning'
       /\ \E k \in 1..Len(calls') :
            calls'[k].phase = "loading" /\ calls'[k].arg = currentIndex']_vars

(***************************************************************************)
(* C7: the scheduler calls playNext() once per failure above the ceiling   *)
(* and never below it: the first maxErrors failures arm one retry timer    *)
(* each and call no playNext(), the 11th failure calls playNext() exactly  *)
(* once and arms no timer.                                                 *)
(***************************************************************************)
C7_PlayNextOnlyAboveCeiling ==
  /\ playNextCalls = (IF errorCount > maxErrors THEN errorCount - maxErrors ELSE 0)
  /\ retriesScheduled = (IF errorCount > maxErrors THEN maxErrors ELSE errorCount)

\* nothing has played, so every failure so far was a load failure of the
\* index of the first command, and the 11th has just been handled
C7_Witness ==
  /\ lastPlayed = -1
  /\ lastSettled = "failed"
  /\ errorCount = maxErrors + 1
  /\ playNextCalls = 1
  /\ retriesScheduled = maxErrors

(***************************************************************************)
(* C8: no playback-time error propagates as an uncaught failure: no        *)
(* promise of the scheduler is rejected without a handler.                 *)
(***************************************************************************)
C8_NoUnhandledRejection == ~unhandledRejection

(***************************************************************************)
(* C9: with no command of the UI layer after the first one, the scheduler  *)
(* never rests on a failed index: after a failed load there is a load in   *)
(* progress or a retry pending.                                            *)
(***************************************************************************)
C9_NeverRestsOnFailedIndex ==
  ~(/\ Length >= 2
    /\ lastSettled = "failed"
    /\ ~isTransitioning
    /\ calls = <<>>
    /\ retryTimers = 0)

(***************************************************************************)
(* C10: when updatePreloadQueue() returns, every entry of the preload      *)
(* cache is a playlist url at a wrapped forward distance of at most        *)
(* preloadBufferSize from the cursor; updatePreloadQueue() runs at the end *)
(* of a successful playVideo and in handleResize.                          *)
(***************************************************************************)
C10_InWindow(u) ==
  \E i \in 1..Length :
    videoUrls[i] = u /\ ((i - 1 - currentIndex) % Length) <= preloadBufferSize

C10_CacheWithinWindow == \A u \in preloadedVideos : C10_InWindow(u)

C10_UpdateStep ==
  \/ \E k \in 1..Len(calls) : CrossfadeDone(k)
  \/ \E isMobile \in BOOLEAN : HandleResize(isMobile)

\* a step either ends with the cache within the window or is not one that
\* runs updatePreloadQueue()
C10_UpdateLeavesNoStaleEntry == [][C10_CacheWithinWindow' \/ ~C10_UpdateStep]_vars

\* the last updatePreloadQueue evicted an entry and kept another
C10_Witness ==
  /\ evicted
  /\ preloadedVideos # {}
  /\ C10_CacheWithinWindow
  /\ ~isTransitioning

(***************************************************************************)
(* C11: cold start.  When the first successful playVideo(i) after          *)
(* initialize returns, nothing having been preloaded before, and the       *)
(* buffer size N is smaller than the playlist, the active slot holds       *)
(* playlist[i] and the urls cached or being preloaded are exactly the N    *)
(* entries at positions i+1..i+N, wrapping.                                *)
(***************************************************************************)
C11_Queue == preloadedVideos \cup loadingPromises

C11_QueueIsNextN ==
  (activeVideoElement \in Slots /\ preloadBufferSize < Length) =>
    /\ currentIndex \in 0..(Length - 1)
    /\ src[activeVideoElement] = videoUrls[currentIndex + 1]
    /\ C11_Queue = {videoUrls[((currentIndex + i) % Length) + 1] : i \in 1..preloadBufferSize}
    /\ Cardinality(C11_Queue) = preloadBufferSize

C11_FirstSuccessStep ==
  /\ activeVideoElement \in Slots
  /\ src[activeVideoElement] = "none"
  /\ C11_Queue = {}
  /\ \E k \in 1..Len(calls) : CrossfadeDone(k)

C12_Count(s, u) == Cardinality({k \in 1..Len(s) : s[k] = u})

C12_IsPermutation(out, in) ==
  /\ Len(out) = Len(in)
  /\ \A k \in 1..Len(in) : C12_Count(out, in[k]) = C12_Count(in, in[k])

C12_PlaylistIsPermutation ==
  [][Length # 0 \/
     \A urls \in InputLists \ {<<>>} : \A rnd \in RandomChoices(Len(Filter(urls))) :
       \/ ~Initialize(urls, rnd)
       \/ thrown' # "none"
       \/ C12_IsPermutation(videoUrls', urls)]_vars

(***************************************************************************)
(* C13: initialize raises an error to its caller exactly when urls is      *)
(* empty or some entry of urls is not a valid url.                         *)
(***************************************************************************)
C13_InitializeValidates ==
  [][Length # 0 \/
     \A urls \in InputLists : \A rnd \in RandomChoices(Len(Filter(urls))) :
       \/ ~Initialize(urls, rnd)
       \/ (thrown' # "none") <=> (urls = <<>> \/ \E k \in 1..Len(urls) : ~ValidUrl(urls[k]))]_vars

(***************************************************************************)
(* C14: navigation wraps around.  An accepted playNext() with the cursor   *)
(* on the last index makes the cursor 0; an accepted playPrevious() with   *)
(* the cursor on 0 makes it length - 1.                                    *)
(***************************************************************************)
C14_Step(op) == \E viaApp \in BOOLEAN : Command(op, viaApp)

C14_NavigationWraps ==
  [][Busy \/
     /\ currentIndex # Length - 1 \/ currentIndex' = 0 \/ ~C14_Step("playNext")
     /\ currentIndex # 0 \/ currentIndex' = Length - 1 \/ ~C14_Step("playPrevious")]_vars

\* the video at index 0 of three has played and the load of the last index is
\* under way
C14_Witness ==
  /\ Length = 3
  /\ lastPlayed = 0
  /\ isTransitioning
  /\ currentIndex = 2
  /\ Len(calls) = 1
  /\ calls[1].arg = 2

(***************************************************************************)
(* C15: a command issued during a transition is dropped, not queued: when  *)
(* the transition completes, the cursor is the target of the one accepted  *)
(* command, no load is in progress and none starts with that step.         *)
(***************************************************************************)
C15_CompletionStep == \E k \in 1..Len(calls) : CrossfadeDone(k)

C15_OneChangePerTransition ==
  [][calls = <<>> \/
     (/\ currentIndex' = calls[1].arg % Length
      /\ currentIndex' = currentIndex
      /\ calls' = <<>>
      /\ ~isTransitioning'
      /\ src' = src) \/
     ~C15_CompletionStep]_vars

\* two transitions have completed, no failure, nothing in progress
C15_Witness ==
  /\ lastSettled = "played"
  /\ activeVideoElement = "A"
  /\ errorCount = 0
  /\ ~isTransitioning
  /\ calls = <<>>
  /\ retryTimers = 0

(***************************************************************************)
(* C16: after initialize the two roles designate the two slots, first      *)
(* active = A, and the roles change only at the end of a crossfade: not    *)
(* with a failed or refused playVideo, handleVideoError or destroy.        *)
(***************************************************************************)
C16_Roles == <<activeVideoElement, inactiveVideoElement>>

C16_RolesChangeOnlyInCrossfade ==
  [][IF activeVideoElement \in Slots
     THEN /\ {activeVideoElement', inactiveVideoElement'} = Slots
          /\ C16_Roles' = C16_Roles \/ \E k \in 1..Len(calls) : CrossfadeDone(k)
     ELSE C16_Roles' = C16_Roles \/ C16_Roles' = <<"A", "B">>]_vars

\* a load has failed, its retry has played into slot B and destroy() has run
C16_Witness ==
  /\ destroyed
  /\ activeVideoElement = "B"
  /\ inactiveVideoElement = "A"
  /\ lastSettled = "played"
  /\ errorCount = 1
  /\ ~activeErrored

(***************************************************************************)
(* C17: destroy() leaves the preload cache, the in-flight map and the      *)
(* subscriber registry empty and no media listener on either slot, and a   *)
(* destroy() in such a state changes nothing of the scheduler.             *)
(***************************************************************************)
C17_Cleared ==
  /\ preloadedVideos = {}
  /\ loadingPromises = {}
  /\ \A e \in Events : eventListeners[e] = <<>>
  /\ listeners = {}

C17_DestroyIsIdempotent ==
  [][\/ /\ C17_Cleared'
        /\ C17_Cleared =>
             UNCHANGED <<videoUrls, currentIndex, activeVideoElement,
                         inactiveVideoElement, isTransitioning, preloadedVideos,
                         loadingPromises, errorCount, preloadBufferSize, src,
                         listeners, calls, retryTimers, eventListeners>>
     \/ ~Destroy]_vars

\* destroy() has run after a video had played, with a preload in flight
C17_Witness ==
  /\ destroyed
  /\ C17_Cleared
  /\ lastSettled = "played"
  /\ \E u \in Urls : orphans[u] > 0

(***************************************************************************)
(* C18: the result of a preload that was in flight when destroy() ran is   *)
(* discarded: when it completes, no entry is added to the preload cache.   *)
(***************************************************************************)
C18_StaleResultDiscarded ==
  [][preloadedVideos' = preloadedVideos \/ ~(\E u \in UrlKeys : StalePreloadOk(u))]_vars

(***************************************************************************)
(* C19: after destroy(), with no new command, no retry timer starts a load *)
(* and no crossfade timer swaps the roles or attaches media listeners to a *)
(* slot.                                                                   *)
(***************************************************************************)
C19_DestroyClearsTimers ==
  [][destroyed =>
       /\ \/ activeVideoElement' = activeVideoElement /\ listeners' \subseteq listeners
          \/ ~(\E k \in 1..Len(calls) : CrossfadeDone(k))
       /\ Len(calls') <= Len(calls) \/ ~RetryTimer]_vars

(***************************************************************************)
(* C20: emit(event) calls every subscriber of that event, in registration  *)
(* order, whether or not one of them throws, calls no subscriber of        *)
(* another event and returns normally.                                     *)
(***************************************************************************)
C20_Expected(event) ==
  [k \in 1..Len(eventListeners[event]) |-> <<event, eventListeners[event][k]>>]

C20_EmitIsolatesSubscribers ==
  [][\A event \in Events :
       (invoked' = C20_Expected(event) /\ ~emitThrew') \/ ~Emit(event)]_vars

\* the first of two subscribers threw and the second was called; the other
\* event has a subscriber too
C20_Witness ==
  /\ Len(invoked) = 2
  /\ invoked[1][2] = "t"
  /\ invoked[2][2] = "f"
  /\ \A event \in EmitterEvents : eventListeners[event] # <<>>
  /\ ~emitThrew

(***************************************************************************)
(* C21: a failure below the ceiling arms exactly one retry timer and       *)
(* starts no load.  When the timer fires and no transition is in progress, *)
(* playVideo is started for the cursor index; when a transition is in      *)
(* progress, the retry is dropped: nothing is started and no timer is      *)
(* armed in its place.                                                     *)
(***************************************************************************)
C21_FailureBelowCeiling == errorCount' = errorCount + 1 /\ errorCount' <= maxErrors

C21_TimerFired == retryTimers' = retryTimers - 1

C21_RetryOfCurrentIndex ==
  [][/\ C21_FailureBelowCeiling =>
          /\ retryTimers' = retryTimers + 1
          /\ currentIndex' = currentIndex
          /\ \A k \in 1..Len(calls') : \E j \in 1..Len(calls) : calls'[k] = calls[j]
     /\ (C21_TimerFired /\ ~isTransitioning) =>
          /\ isTransitioning'
          /\ currentIndex' = currentIndex
          /\ calls' = Append(calls, Call(currentIndex))
          /\ src'[inactiveVideoElement] = UrlAt(currentIndex)
     /\ (C21_TimerFired /\ isTransitioning) =>
          /\ UNCHANGED <<currentIndex, calls, src, isTransitioning, playNextCalls,
                         unhandledRejection, retriesScheduled>>]_vars

\* the one failure was the load of the first command; its timer has fired
\* and the same index is loading again
C21_Witness ==
  /\ lastPlayed = -1
  /\ lastSettled = "failed"
  /\ errorCount = 1
  /\ retriesScheduled = 1
  /\ retryTimers = 0
  /\ isTransitioning
  /\ Len(calls) = 1
  /\ calls[1].arg = currentIndex
  /\ src[inactiveVideoElement] = UrlAt(currentIndex)

(***************************************************************************)
(* C22: the error counter never decreases and is never reset.  Every       *)
(* handleVideoError adds exactly one to it and no other step changes it;   *)
(* once it is above maxErrors, no failure arms a retry timer.              *)
(***************************************************************************)
C22_FailureStep ==
  \/ \E k \in 1..Len(calls) : LoadFail(k, MaxAutoErrors)
  \/ ActiveError(MaxAutoErrors)

C22_ErrorCounterMonotone ==
  [][/\ errorCount' \in {errorCount, errorCount + 1}
     /\ errorCount' > maxErrors => retriesScheduled' = retriesScheduled
     /\ (errorCount' = errorCount + 1) <=> C22_FailureStep]_vars

\* the counter is above the ceiling after successful plays, and the retry
\* timers armed are those of the first maxErrors failures
C22_Witness ==
  /\ errorCount = maxErrors + 1
  /\ retriesScheduled = maxErrors
  /\ lastPlayed # -1
  /\ lastSettled = "played"

(***************************************************************************)
(* C23: a preload that fails or times out adds no cache entry and removes  *)
(* its in-flight marker; it starts no preload and no load, and changes     *)
(* neither the error counter, the cursor, the roles of the slots nor the   *)
(* transition flag.  A url is fetched again only by updatePreloadQueue     *)
(* (after a successful playVideo or a resize) or by the load of playVideo  *)
(* into the inactive slot.                                                 *)
(***************************************************************************)
C23_Untouched ==
  /\ preloadedVideos' = preloadedVideos
  /\ UNCHANGED <<errorCount, currentIndex, activeVideoElement, inactiveVideoElement,
                 isTransitioning, calls, src, retryTimers>>

C23_FetchStep ==
  \/ \E k \in 1..Len(calls) : CrossfadeDone(k)
  \/ \E isMobile \in BOOLEAN : HandleResize(isMobile)

C23_FailedPreloadIsSilent ==
  [][/\ \A u \in UrlKeys :
          \/ /\ C23_Untouched
             /\ u \notin loadingPromises'
             /\ preloads' = [preloads EXCEPT ![u] = @ - 1]
          \/ ~PreloadFail(u)
     /\ \/ \A u \in UrlKeys : preloads'[u] <= preloads[u]
        \/ C23_FetchStep]_vars

\* a video is playing, every preload its updatePreloadQueue started has
\* ended, and nothing is cached: the preloads have failed
C23_Witness ==
  /\ Length = 3
  /\ lastSettled = "played"
  /\ ~isTransitioning
  /\ errorCount = 0
  /\ preloadedVideos = {}
  /\ loadingPromises = {}
  /\ \A u \in UrlKeys : preloads[u] = 0

(***************************************************************************)
(* C24: playVideo for an index whose preload is still in flight does not   *)
(* wait for it: it loads the url into the inactive slot with loadNewVideo  *)
(* and leaves the preload alone.  When the preload ends later, with        *)
(* success or failure, the running transition, the cursor and the roles    *)
(* of the slots stay as they are.                                          *)
(***************************************************************************)
C24_Started == Len(calls') = Len(calls) + 1

C24_Settled == \E u \in UrlKeys : preloads'[u] = preloads[u] - 1

C24_PlayDoesNotWaitForPreload ==
  [][/\ (C24_Started /\ UrlAt(currentIndex') \notin preloadedVideos) =>
          /\ calls'[Len(calls')].via = "loadNewVideo"
          /\ calls'[Len(calls')].phase = "loading"
          /\ src'[inactiveVideoElement] = UrlAt(currentIndex')
          /\ UNCHANGED <<preloads, loadingPromises, preloadedVideos>>
     /\ C24_Settled =>
          UNCHANGED <<calls, currentIndex, isTransitioning, activeVideoElement,
                      inactiveVideoElement, src>>]_vars

\* the direct load of the target has ended and the crossfade runs, while the
\* preload of the same url is still in flight
C24_Witness ==
  /\ Len(calls) = 1
  /\ calls[1].via = "loadNewVideo"
  /\ calls[1].phase = "crossfade"
  /\ UrlAt(currentIndex) \in loadingPromises
  /\ preloads[UrlAt(currentIndex)] = 1

(***************************************************************************)
(* C25: whenever no transition is in progress, every entry of the preload  *)
(* cache lies within preloadBufferSize of the cursor, counted forward with *)
(* wrap-around (the url of the cursor itself is at distance 0), so the     *)
(* cache holds at most preloadBufferSize + 1 entries.                      *)
(***************************************************************************)
C25_CacheBoundedAtRest ==
  ~isTransitioning =>
     /\ \A u \in preloadedVideos : Distance(u, currentIndex) <= preloadBufferSize
     /\ Cardinality(preloadedVideos) <= preloadBufferSize + 1

(***************************************************************************)
(* C26: at most one preload of a url is in flight at any time, and         *)
(* updatePreloadQueue starts a preload only for a url of the next          *)
(* preloadBufferSize entries that is neither cached nor being preloaded.   *)
(***************************************************************************)
C26_OnePreloadPerUrl == \A u \in UrlKeys : preloads[u] <= 1

(***************************************************************************)
(* C27: a retry timer never reloads a video that has started playing       *)
(* successfully since the timer was armed: when a playVideo has completed  *)
(* its transition after the last failure and the timer fires with no       *)
(* transition in progress, the timer starts no load.                       *)
(***************************************************************************)
C27_PlayedSinceLastFailure == lastSettled = "played" /\ ~activeErrored

C27_RetryTimerFired == retryTimers' = retryTimers - 1

C27_StaleRetryStartsNothing ==
  [][(C27_RetryTimerFired /\ C27_PlayedSinceLastFailure /\ ~isTransitioning) =>
       UNCHANGED <<calls, src, isTransitioning, currentIndex>>]_vars

(***************************************************************************)
(* C28: the cursor is -1 until the first play command is accepted, and     *)
(* from then on it is an index of the playlist, 0..length - 1, whatever    *)
(* playNext, playPrevious and playRandom commands, failures and retries    *)
(* follow.                                                                 *)
(***************************************************************************)
C28_NothingAccepted == calls = <<>> /\ lastSettled = "none"

C28_CursorInRange ==
  IF C28_NothingAccepted
  THEN currentIndex = -1
  ELSE currentIndex \in 0..(Length - 1)

\* a playlist of one url: the load of the first command has failed, the
\* retry timer has fired and the retry is loading
C28_Witness ==
  /\ Length = 1
  /\ currentIndex = 0
  /\ lastSettled = "failed"
  /\ errorCount = 1
  /\ retryTimers = 0
  /\ Len(calls) = 1
  /\ calls[1].phase = "loading"

(***************************************************************************)
(* C29: emit(event) calls every subscriber that is registered for the      *)
(* event when it starts exactly once, in registration order, also when a   *)
(* subscriber calls off() for itself or for another subscriber of the      *)
(* event while it is called; off(event, cb) removes one registration of    *)
(* cb, which later emits no longer call.                                   *)
(***************************************************************************)
C29_Registered(event) ==
  [k \in 1..Len(eventListeners[event]) |-> <<event, eventListeners[event][k]>>]

C29_Registrations(list, cb) == Cardinality({k \in 1..Len(list) : list[k] = cb})

C29_EmitCallsAllRegistered ==
  [][/\ \A event \in Events : invoked' = C29_Registered(event) \/ ~Emit(event)
     /\ \A event \in Events : \A cb \in {"f"} \cup Unsubscribers :
          \/ /\ C29_Registrations(eventListeners'[event], cb) =
                  (IF C29_Registrations(eventListeners[event], cb) = 0 THEN 0
                   ELSE C29_Registrations(eventListeners[event], cb) - 1)
          \/ ~Off(event, cb)]_vars

(***************************************************************************)
(* C30: with autoplay on, the timeUpdate events of the last 3.2 seconds of *)
(* a video and its ended event cause exactly one playback change: one of   *)
(* them starts the next video, and none of them moves the cursor again     *)
(* once it has left the index of the video that plays, also when the load  *)
(* of the next video has failed in the meantime.                           *)
(***************************************************************************)
C30_AutoplayStep == TimeUpdate \/ Ended

C30_OneChangePerVideo ==
  [][\/ /\ currentIndex' = currentIndex \/ currentIndex = lastPlayed
        /\ position' # "ended" \/ isTransitioning' \/ currentIndex' # lastPlayed
     \/ ~C30_AutoplayStep]_vars

(***************************************************************************)
(* C31: pausedByPageHide is true only while a pause caused by page hide is *)
(* in effect: the page is hidden and the video of the active slot is       *)
(* paused.  The page becoming visible resumes only then, so a video the    *)
(* user paused stays paused over page-hidden and page-visible events.      *)
(***************************************************************************)
C31_FlagMeansPausedByHide ==
  pausedByPageHide => (hidden /\ paused[activeVideoElement])

\* C32: the hide timer hides the overlay only when no interaction (mouse
\* move, mouse down, touch start, key press) has reached the visibility
\* handler since the timer was armed.
C32_HidesOnlyAfterInactivity ==
  [][(uiVisible /\ ~uiVisible') => ~interacted]_vars

\* a step that starts a strategy, and one that admits a recovery
StrategyStarted == \E key \in StrategyKeys : recoveries'[key] > recoveries[key]
RecoveryAdmitted == \E type \in ErrorTypes : recoveries'[type] > recoveries[type]

\* C33, as stated: recoveryAttempts never exceeds maxRecoveryAttempts, and no
\* recovery strategy is started while the count is at the maximum.
C33_NoStrategyAtMaximum ==
  [](recoveryAttempts <= maxRecoveryAttempts)
  /\ [][StrategyStarted => recoveryAttempts < maxRecoveryAttempts]_vars

\* C33, amended: recoveryAttempts never exceeds maxRecoveryAttempts, and no
\* recovery is admitted (counted, its delay begun) while the count is at the
\* maximum; the strategy of an admitted recovery starts after its delay,
\* whatever the count is then.
C33_AttemptsBounded ==
  [](recoveryAttempts <= maxRecoveryAttempts)
  /\ [][RecoveryAdmitted => recoveryAttempts < maxRecoveryAttempts]_vars

\* the third recovery has been admitted by an error that its own recovery raised
C33_Witness ==
  /\ recoveryAttempts = maxRecoveryAttempts
  /\ recoveries["recovery_error"] > 0

\* C34: whenever attemptRecovery resolves true, hasError is false and
\* recoveryAttempts is 0.
C34_ResolvedTrueMeansReset ==
  [][resolvedTrue' # resolvedTrue => (~hasError' /\ recoveryAttempts' = 0)]_vars

\* C35: retry calls func at most maxAttempts times; when it resolves, it
\* resolves with the value of the first call of func that returned, which is
\* the last call it made; when it rejects, all maxAttempts calls threw and it
\* rejects with the error of the last.
C35_RetryContract ==
  /\ funcCalls <= maxAttempts
  /\ retryPc = "resolved" =>
       /\ funcCalls >= 1
       /\ func[funcCalls] \in Values
       /\ settledWith = func[funcCalls]
       /\ \A k \in 1..(funcCalls - 1) : func[k] \in Errors
  /\ retryPc = "rejected" =>
       /\ funcCalls = maxAttempts
       /\ \A k \in 1..maxAttempts : func[k] \in Errors
       /\ settledWith = func[maxAttempts]

\* C36: after any sequence of video requests the dynamic cache holds at most
\* MAX_VIDEO_CACHE_SIZE entries.
C36_VideoCacheBounded == Len(swCache) <= MAX_VIDEO_CACHE_SIZE

TypeOK ==
  /\ isTransitioning \in BOOLEAN
  /\ errorCount \in 0..MaxAutoErrors
  /\ retryTimers \in 0..maxErrors
  /\ preloadedVideos \subseteq UrlKeys
  /\ loadingPromises \subseteq UrlKeys

====
